---- MODULE Spec2Model ----
(***************************************************************************)
(* Model of feathersjs-docs-mcp: the docs index (src/index.ts, the FastMCP *)
(* server of lines 269-504), repository sync (src/docs/sync.ts), markdown  *)
(* discovery (src/docs/discover.ts), page parsing (src/docs/parse.ts) and  *)
(* the URI helpers (src/utils.ts).                                          *)
(*                                                                         *)
(* Strings are sequences of character codes, so that startsWith, includes, *)
(* toLowerCase, trim, decodeURIComponent and path.resolve are computed on  *)
(* characters, as Node computes them.  Paths follow node:path on POSIX.    *)
(***************************************************************************)
EXTENDS Integers, Sequences, FiniteSets, TLC

(***************************************************************************)
(* Characters and strings                                                  *)
(***************************************************************************)

\* A string is the sequence of its characters, each a one-character string.
\* The printable ASCII characters in code order: Ascii[i] has code 31 + i
\* (the double quote and the backtick are spelled out).
Ascii ==
  << " ", "!", "dquote", "#", "$", "%", "&", "'", "(", ")", "*", "+", ",", "-", ".", "/",
     "0", "1", "2", "3", "4", "5", "6", "7", "8", "9", ":", ";", "<", "=", ">", "?",
     "@", "A", "B", "C", "D", "E", "F", "G", "H", "I", "J", "K", "L", "M", "N", "O",
     "P", "Q", "R", "S", "T", "U", "V", "W", "X", "Y", "Z", "[", "\\", "]", "^", "_",
     "backtick", "a", "b", "c", "d", "e", "f", "g", "h", "i", "j", "k", "l", "m", "n", "o",
     "p", "q", "r", "s", "t", "u", "v", "w", "x", "y", "z", "{", "|", "}", "~" >>

\* The code unit of a character; TAB, LF, FF and CR come before the space.
CodeOf(c) ==
  IF c = "\t" THEN 9 ELSE IF c = "\n" THEN 10 ELSE IF c = "\f" THEN 12 ELSE IF c = "\r" THEN 13
  ELSE 31 + (CHOOSE i \in 1..95 : Ascii[i] = c)

\* The character of a code point: itself within printable ASCII; one stand-in
\* for every other code point.
CharOf(n) == IF n >= 32 /\ n <= 126 THEN Ascii[n - 31] ELSE "other"

\* The least and the greatest element of a non-empty set of numbers.
Min(ns) == CHOOSE n \in ns : \A m \in ns : n <= m

Max(ns) == CHOOSE n \in ns : \A m \in ns : m <= n

StartsWith(s, p) == Len(p) <= Len(s) /\ SubSeq(s, 1, Len(p)) = p

EndsWith(s, p) == Len(p) <= Len(s) /\ SubSeq(s, Len(s) - Len(p) + 1, Len(s)) = p

\* String.prototype.includes
Includes(s, q) == \E i \in 0..(Len(s) - Len(q)) : SubSeq(s, i + 1, i + Len(q)) = q

IsUpper(c) ==
  c \in {"A", "B", "C", "D", "E", "F", "G", "H", "I", "J", "K", "L", "M",
          "N", "O", "P", "Q", "R", "S", "T", "U", "V", "W", "X", "Y", "Z"}

\* String.prototype.toLowerCase on ASCII: A..Z (65..90) map to a..z.
LowerOf(c) == IF IsUpper(c) THEN CharOf(CodeOf(c) + 32) ELSE c

ToLowerCase(s) == [i \in 1..Len(s) |-> LowerOf(s[i])]

\* White space of String.prototype.trim within ASCII: TAB, LF, FF, CR, SP.
IsSpace(c) == c \in {"\t", "\n", "\f", "\r", " "}

\* String.prototype.trim
Trim(s) ==
  LET Kept(keep) == IF keep = {} THEN <<>> ELSE SubSeq(s, Min(keep), Max(keep))
  IN  Kept({i \in 1..Len(s) : ~IsSpace(s[i])})

\* String.prototype.replaceAll(from, to) for single characters.
ReplaceAll(s, from, to) == [i \in 1..Len(s) |-> IF s[i] = from THEN to ELSE s[i]]

\* String.prototype.split(sep) for a single character: "" gives <<"">>.
RECURSIVE SplitOn(_, _)
SplitOn(s, sep) ==
  LET Cut(hits) ==
        IF hits = {} THEN << s >>
        ELSE << SubSeq(s, 1, Min(hits) - 1) >> \o SplitOn(SubSeq(s, Min(hits) + 1, Len(s)), sep)
  IN  Cut({i \in 1..Len(s) : s[i] = sep})

\* Array.prototype.join(sep) for a single character.
RECURSIVE JoinWith(_, _)
JoinWith(segs, sep) ==
  IF segs = <<>> THEN <<>>
  ELSE IF Len(segs) = 1 THEN segs[1]
  ELSE segs[1] \o << sep >> \o JoinWith(Tail(segs), sep)

\* The first position where s and t differ: one past the shorter string when
\* it is a prefix of the other, 0 when s = t.
FirstDiff(s, t) ==
  LET First(short, diff) ==
        IF diff # {} THEN Min(diff) ELSE IF Len(s) = Len(t) THEN 0 ELSE short + 1
  IN  First(Min({Len(s), Len(t)}), {i \in 1..Min({Len(s), Len(t)}) : s[i] # t[i]})

\* s < t by code units: the order of Array.prototype.sort() without comparator.
CodeLess(s, t) ==
  LET Less(d) == d # 0 /\ d <= Len(t) /\ (d > Len(s) \/ CodeOf(s[d]) < CodeOf(t[d]))
  IN  Less(FirstDiff(s, t))

(***************************************************************************)
(* decodeURIComponent                                                      *)
(***************************************************************************)

\* The value of a hexadecimal digit, or -1.
HexDigits == << "0", "1", "2", "3", "4", "5", "6", "7", "8", "9", "a", "b", "c", "d", "e", "f" >>

HexVal(c) ==
  LET Value(at) == IF at = {} THEN -1 ELSE Min(at) - 1
  IN  Value({i \in 1..16 : HexDigits[i] = LowerOf(c)})

\* The octet of the escape "%XY" at position i of s, or -1 when malformed.
OctetAt(s, i) ==
  IF i + 2 > Len(s) \/ s[i] # "%" THEN -1
  ELSE LET Octet(hi, lo) == IF hi < 0 \/ lo < 0 THEN -1 ELSE 16 * hi + lo
       IN  Octet(HexVal(s[i + 1]), HexVal(s[i + 2]))

\* Number of octets of the UTF-8 sequence a lead octet opens (0: not a lead,
\* or no octet at all).
Utf8Len(b) ==
  IF b < 0 THEN 0
  ELSE IF b < 128 THEN 1
  ELSE IF b >= 194 /\ b <= 223 THEN 2
  ELSE IF b >= 224 /\ b <= 239 THEN 3
  ELSE IF b >= 240 /\ b <= 244 THEN 4
  ELSE 0

\* The payload bits of the lead octet b of a sequence of n octets.
Lead(b, n) == IF n = 1 THEN b ELSE IF n = 2 THEN b - 192 ELSE IF n = 3 THEN b - 224 ELSE b - 240

\* The code point of the sequence of n escapes s starts with, from its k-th
\* continuation octet on, acc being the bits read so far; -1 when an octet
\* is no continuation octet.
RECURSIVE Point(_, _, _, _)
Point(s, n, acc, k) ==
  IF k > n - 1 THEN acc
  ELSE LET More(c) == IF c < 128 \/ c > 191 THEN -1 ELSE Point(s, n, 64 * acc + (c - 128), k + 1)
       IN  More(OctetAt(s, 3 * k + 1))

\* The character c before the decoding of the rest of the string.
Before(c, rest) == [ok |-> rest.ok, val |-> IF rest.ok THEN << c >> \o rest.val ELSE <<>>]

\* decodeURIComponent(s): [ok |-> FALSE] stands for the URIError it throws on a
\* malformed escape.  A multi-octet sequence decodes to one code point.
RECURSIVE DecodeURIComponent(_)
DecodeURIComponent(s) ==
  IF s = <<>> THEN [ok |-> TRUE, val |-> <<>>]
  ELSE IF s[1] # "%" THEN Before(s[1], DecodeURIComponent(Tail(s)))
  ELSE LET Sequence(b, n) ==
             LET Decoded(point) ==
                   IF point < 0 THEN [ok |-> FALSE, val |-> <<>>]
                   ELSE Before(CharOf(point), DecodeURIComponent(SubSeq(s, 3 * n + 1, Len(s))))
             IN  IF n = 0 THEN [ok |-> FALSE, val |-> <<>>] ELSE Decoded(Point(s, n, Lead(b, n), 1))
       IN  Sequence(OctetAt(s, 1), Utf8Len(OctetAt(s, 1)))

(***************************************************************************)
(* node:path (POSIX)                                                       *)
(***************************************************************************)

\* normalizeString: drops "" and ".", and lets ".." remove the segment before
\* it; above the root of an absolute path ".." is dropped.
RECURSIVE NormalizeSegs(_, _)
NormalizeSegs(segs, acc) ==
  IF segs = <<>> THEN acc
  ELSE LET g == segs[1]
       IN  IF g = <<>> \/ g = << "." >> THEN NormalizeSegs(Tail(segs), acc)
           ELSE IF g = << ".", "." >>
             THEN NormalizeSegs(Tail(segs), IF acc = <<>> THEN acc ELSE SubSeq(acc, 1, Len(acc) - 1))
           ELSE NormalizeSegs(Tail(segs), Append(acc, g))

\* The absolute path with the given segments.
AbsPath(segs) == << "/" >> \o JoinWith(segs, "/")

IsAbsolute(p) == p # <<>> /\ p[1] = "/"

\* path.resolve(base, rel) for an absolute base: an absolute rel replaces base.
PathResolve(base, rel) ==
  IF IsAbsolute(rel) THEN AbsPath(NormalizeSegs(SplitOn(rel, "/"), <<>>))
  ELSE AbsPath(NormalizeSegs(SplitOn(base, "/") \o SplitOn(rel, "/"), <<>>))

\* path.join(dir, name) for an absolute dir: the normalized dir + "/" + name.
PathJoin(dir, name) ==
  AbsPath(NormalizeSegs(SplitOn(dir, "/") \o SplitOn(name, "/"), <<>>))

\* path.relative(from, to) for absolute normalized paths.
PathRelative(from, to) ==
  LET Rel(f, t) ==
        LET Ups(c) == [i \in 1..(Len(f) - c) |-> << ".", "." >>] \o SubSeq(t, c + 1, Len(t))
        IN  JoinWith(Ups(Max({k \in 0..Len(f) : k <= Len(t) /\ SubSeq(f, 1, k) = SubSeq(t, 1, k)})), "/")
  IN  Rel(NormalizeSegs(SplitOn(from, "/"), <<>>), NormalizeSegs(SplitOn(to, "/"), <<>>))

\* path.posix.dirname
PosixDirname(p) ==
  LET Dir(hits) ==
        IF hits = {} THEN << "." >>
        ELSE IF Max(hits) = 1 THEN << "/" >> ELSE SubSeq(p, 1, Max(hits) - 1)
  IN  Dir({i \in 1..Len(p) : p[i] = "/"})

Last(seq) == seq[Len(seq)]

\* path.basename(p, ext)
PathBasename(p, ext) ==
  LET Base(b) == IF b # ext /\ EndsWith(b, ext) THEN SubSeq(b, 1, Len(b) - Len(ext)) ELSE b
  IN  Base(Last(SplitOn(p, "/")))

(***************************************************************************)
(* Configuration (src/config.ts), with FEATHERS_MCP_CACHE_DIR=/c           *)
(***************************************************************************)

cacheDir == << "/", "c" >>

repoDir == PathJoin(cacheDir, << "f", "e", "a", "t", "h", "e", "r", "s", "-", "r", "e", "p", "o" >>)

docsDir == PathJoin(repoDir, << "d", "o", "c", "s" >>)

\* Number.parseInt(s, 10): leading white space, an optional sign, then the
\* longest run of decimal digits; [nan |-> TRUE] when there is no digit.
IsDigit(c) == c \in {"0", "1", "2", "3", "4", "5", "6", "7", "8", "9"}

RECURSIVE DigitsValue(_, _)
DigitsValue(s, acc) ==
  IF s = <<>> \/ ~IsDigit(s[1]) THEN acc
  ELSE DigitsValue(Tail(s), 10 * acc + HexVal(s[1]))

RECURSIVE SkipSpace(_)
SkipSpace(s) == IF s # <<>> /\ IsSpace(s[1]) THEN SkipSpace(Tail(s)) ELSE s

ParseInt(s) ==
  LET Signed(t) ==
        LET Digits(u) ==
              IF u = <<>> \/ ~IsDigit(u[1]) THEN [nan |-> TRUE, val |-> 0]
              ELSE [nan |-> FALSE,
                    val |-> IF t[1] = "-" THEN 0 - DigitsValue(u, 0) ELSE DigitsValue(u, 0)]
        IN  Digits(IF t # <<>> /\ t[1] \in {"-", "+"} THEN Tail(t) ELSE t)
  IN  Signed(SkipSpace(s))

\* intFromEnv(name, fallback): env is the variable, [set |-> FALSE] when it is
\* not in the environment.
intFromEnv(env, fallback) ==
  IF ~env.set \/ env.val = <<>> THEN fallback
  ELSE LET Parsed(parsed) == IF parsed.nan THEN fallback ELSE parsed.val
       IN  Parsed(ParseInt(env.val))

\* getConfig().topK
DefaultTopK == 6

TopKOf(env) == intFromEnv(env, DefaultTopK)

\* The values of TOP_K the server is started with.
TopKEnv ==
  { [set |-> FALSE, val |-> <<>>],
    [set |-> TRUE, val |-> <<>>],
    [set |-> TRUE, val |-> << "0" >>],
    [set |-> TRUE, val |-> << "-", "1" >>],
    [set |-> TRUE, val |-> << "2" >>],
    [set |-> TRUE, val |-> << "2", "5" >>],
    [set |-> TRUE, val |-> << "x" >>] }

(***************************************************************************)
(* The repository: files, documents, commits                               *)
(***************************************************************************)

\* Files of the repository, by their path under repoDir.  fileBs is a file
\* named "x\b.md" in docs/ (a backslash is an ordinary character of a POSIX
\* file name); fileSib lies in a sibling directory of docs/.
fileA == << "d", "o", "c", "s", "/", "a", ".", "m", "d" >>

fileB == << "d", "o", "c", "s", "/", "x", "/", "b", ".", "m", "d" >>

fileBs == << "d", "o", "c", "s", "/", "x", "\\", "b", ".", "m", "d" >>

filePct == << "d", "o", "c", "s", "/", "c", "%", ".", "m", "d" >>

fileE == << "d", "o", "c", "s", "/", "e", ".", "m", "d" >>

fileH == << "d", "o", "c", "s", "/", "h", ".", "m", "d" >>

fileTxt == << "d", "o", "c", "s", "/", "n", ".", "t", "x", "t" >>

\* A file whose suffix is .MD in capitals.
fileUp == << "d", "o", "c", "s", "/", "U", ".", "M", "D" >>

fileSib == << "d", "o", "c", "s", "-", "x", "/", "s", ".", "m", "d" >>

RepoFiles == {fileA, fileB, fileBs, filePct, fileE, fileH, fileTxt, fileUp, fileSib}

\* Documents.  fm is what gray-matter makes of the front matter: "none" (no
\* front matter), "string" (a title field holding the string title), "other" (a
\* title field that is not a string), "absent" (front matter without title),
\* "invalid" (YAML that js-yaml rejects: matter() throws).  body is
\* parsed.content.
LF == << "\n" >>

Docs ==
  << [fm |-> "none", title |-> <<>>, body |-> << "#", " ", "A" >>],
     [fm |-> "string", title |-> << "A", "P", "I" >>,
      body |-> << "#", "#", " ", "O", "v", "e", "r", "v", "i", "e", "w" >> \o LF \o << "t", "e", "x", "t" >>],
     [fm |-> "other", title |-> <<>>, body |-> <<>>],
     [fm |-> "invalid", title |-> <<>>, body |-> << "#", " ", "B" >>],
     [fm |-> "absent", title |-> <<>>,
      body |-> << "#", " ", "a", "p", "i" >> \o LF \o << "#", "#", "#", "#", "#", "#", "#", " ", "n", "o" >>
               \o LF \o << "#", "#", " ", " ", "X", " " >> \o LF \o << "e", "n", "d" >>],
     [fm |-> "none", title |-> <<>>,
      body |-> << "#", " ", "1" >> \o LF \o << "#", " ", "2" >> \o LF \o << "#", " ", "3" >>
               \o LF \o << "#", " ", "4" >> \o LF \o << "#", " ", "5" >> \o LF
               \o << "#", " ", "6" >> \o LF \o << "#", " ", "7" >> \o LF
               \o << "#", " ", "8" >> \o LF \o << "#", " ", "9" >>],
     [fm |-> "string", title |-> <<>>, body |-> << "#", " ", "T" >>],
     [fm |-> "none", title |-> <<>>, body |-> << "#", " " >> \o LF \o << "t", "e", "x", "t" >>] >>

DocIds == DOMAIN Docs

\* A working tree (and the tree of a commit) gives each file the id of its
\* document, 0 for a file that is not there.
NoFile == 0

TreeOf(present) == [f \in RepoFiles |-> IF f \in DOMAIN present THEN present[f] ELSE NoFile]

\* The commits the remote branch can point at.
Commits ==
  << TreeOf(fileA :> 1 @@ fileB :> 2 @@ fileSib :> 1),
     TreeOf(fileA :> 5 @@ fileB :> 2 @@ fileBs :> 6 @@ filePct :> 3 @@ fileE :> 7 @@ fileH :> 8
            @@ fileTxt :> 1 @@ fileUp :> 2 @@ fileSib :> 1),
     TreeOf(fileA :> 1 @@ fileB :> 4),
     TreeOf(fileTxt :> 3 @@ fileUp :> 1 @@ fileSib :> 1),
     TreeOf(fileSib :> 1) >>

CommitIds == DOMAIN Commits

NoCommit == 0

(***************************************************************************)
(* The file system under repoDir                                           *)
(***************************************************************************)

\* The absolute path of a repository file: its path below repoDir.
FullPath(f) == repoDir \o << "/" >> \o f

\* The files of working tree t below directory dir.
Below(t, dir) == {f \in RepoFiles : t[f] # NoFile /\ StartsWith(FullPath(f), dir \o << "/" >>)}

\* fs.existsSync(dir) for a directory: git keeps a directory exactly while a
\* file lies under it.
DirExists(t, dir) == Below(t, dir) # {}

\* fs.readFileSync(p, 'utf8'): the document at absolute path p; ok is FALSE
\* for the ENOENT or EISDIR it throws.
ReadFileSync(t, p) ==
  LET Read(here) ==
        IF here = {} THEN [ok |-> FALSE, doc |-> NoFile]
        ELSE [ok |-> TRUE, doc |-> t[CHOOSE f \in here : TRUE]]
  IN  Read({f \in RepoFiles : t[f] # NoFile /\ FullPath(f) = p})

(***************************************************************************)
(* src/utils.ts                                                            *)
(***************************************************************************)

prefix ==
  << "f", "e", "a", "t", "h", "e", "r", "s", "-", "d", "o", "c", ":", "/", "/", "d", "o", "c", "s", "/" >>

toUri(relativePath) == prefix \o ReplaceAll(relativePath, "\\", "/")

(***************************************************************************)
(* src/docs/discover.ts                                                    *)
(***************************************************************************)

mdSuffix == << ".", "m", "d" >>

\* files.sort(): the strings of set strs in ascending code-unit order.
RECURSIVE SortedSeq(_)
SortedSeq(strs) ==
  IF strs = {} THEN <<>>
  ELSE LET From(m) == << m >> \o SortedSeq(strs \ {m})
       IN  From(CHOOSE x \in strs : \A y \in strs : y = x \/ CodeLess(x, y))

\* A walk that takes the suffix in any case: .md, .MD, .Md, .mD.
walkAnyCase(t, dir) ==
  {FullPath(f) : f \in {g \in Below(t, dir) : EndsWith(ToLowerCase(g), mdSuffix)}}

\* walk(dir, out): the files under dir whose name ends with ".md".
walk(t, dir) == {FullPath(f) : f \in {g \in Below(t, dir) : EndsWith(g, mdSuffix)}}

discoverMarkdownFiles(t, dir) ==
  IF ~DirExists(t, dir) THEN <<>> ELSE SortedSeq(walk(t, dir))

(***************************************************************************)
(* src/docs/parse.ts                                                       *)
(***************************************************************************)

\* The length of the match of /^#{1,6}\s+/ at the start of line, 0 for none.
HeadingMarker(line) ==
  LET Marked(fits) ==
        IF fits = {} THEN 0
        ELSE Max({j \in (Max(fits) + 1)..Len(line) : \A i \in (Max(fits) + 1)..j : IsSpace(line[i])})
  IN  Marked({k \in 1..6 : /\ k < Len(line)
                            /\ \A i \in 1..k : line[i] = "#"
                            /\ IsSpace(line[k + 1])})

RECURSIVE FilterHeadings(_)
FilterHeadings(lines) ==
  IF lines = <<>> THEN <<>>
  ELSE LET Heading(line, m) ==
             IF m = 0 THEN <<>> ELSE << Trim(SubSeq(line, m + 1, Len(line))) >>
       IN  Heading(lines[1], HeadingMarker(lines[1])) \o FilterHeadings(Tail(lines))

extractHeadings(content) == FilterHeadings(SplitOn(content, "\n"))

\* parseMarkdownFile(filePath, docsDir): ok is FALSE when readFileSync or
\* matter() throws.  checksum is the document's id (sha256 taken as injective);
\* lastModified, which nothing reads, is left out.
parseMarkdownFile(t, filePath, dir) ==
  LET Page(raw, relativePath) ==
        IF ~raw.ok \/ Docs[raw.doc].fm = "invalid" THEN [ok |-> FALSE, page |-> <<>>]
        ELSE LET Meta(parsed, headings) ==
                   [ok |-> TRUE,
                    page |-> [uri |-> toUri(relativePath),
                              title |-> IF parsed.fm = "string" THEN parsed.title
                                        ELSE IF headings # <<>> THEN headings[1]
                                        ELSE PathBasename(filePath, mdSuffix),
                              relativePath |-> relativePath, headings |-> headings,
                              checksum |-> raw.doc]]
             IN  Meta(Docs[raw.doc], extractHeadings(Trim(Docs[raw.doc].body)))
  IN  Page(ReadFileSync(t, filePath), PathRelative(dir, filePath))

(***************************************************************************)
(* resolveDocFilePath (src/index.ts)                                       *)
(***************************************************************************)

Thrown(msg) == [ok |-> FALSE, err |-> msg, path |-> <<>>]

\* The traversal check of resolveDocFilePath: resolved.startsWith(root).
WithinRoot(resolved, root) == StartsWith(resolved, root)

resolveDocFilePath(dir, uri) ==
  IF ~StartsWith(uri, prefix) THEN Thrown("Invalid URI")
  ELSE LET Decoded(relativePath) ==
             IF ~relativePath.ok THEN Thrown("URIError")
             ELSE LET Checked(resolved, root) ==
                        IF ~WithinRoot(resolved, root) THEN Thrown("Path traversal detected")
                        ELSE [ok |-> TRUE, err |-> "", path |-> resolved]
                  IN  Checked(PathResolve(dir, relativePath.val), PathResolve(dir, <<>>))
       IN  Decoded(DecodeURIComponent(SubSeq(uri, Len(prefix) + 1, Len(uri))))

(***************************************************************************)
(* String.prototype.localeCompare                                          *)
(***************************************************************************)

\* The ASCII characters in the order of the root collation: white space,
\* punctuation, symbols, digits, letters; a letter and its capital share a
\* place (primary weight) and differ at the third level, the small one first.
CollationOrder ==
  << " ", "_", "-", ",", ";", ":", "!", "?", ".", "'", "dquote", "(", ")", "[", "]", "{", "}",
     "@", "*", "/", "\\", "&", "#", "%", "backtick", "^", "+", "<", "=", ">", "|", "~", "$",
     "0", "1", "2", "3", "4", "5", "6", "7", "8", "9",
     "a", "b", "c", "d", "e", "f", "g", "h", "i", "j", "k", "l", "m",
     "n", "o", "p", "q", "r", "s", "t", "u", "v", "w", "x", "y", "z" >>

PrimaryWeight(c) == CHOOSE i \in DOMAIN CollationOrder : CollationOrder[i] = LowerOf(c)

\* a.localeCompare(b) < 0: the first difference of primary weights decides;
\* without one, the first difference of case does.
LocaleLess(a, b) ==
  LET Shorter(n) ==
        LET Differ(d, e) ==
              IF d # {}
                THEN PrimaryWeight(a[Min(d)]) < PrimaryWeight(b[Min(d)])
              ELSE IF Len(a) # Len(b) THEN Len(a) < Len(b)
              ELSE e # {} /\ ~IsUpper(a[Min(e)])
        IN  Differ({i \in 1..n : a[i] # b[i] /\ LowerOf(a[i]) # LowerOf(b[i])},
                   {i \in 1..n : a[i] # b[i]})
  IN  Shorter(Min({Len(a), Len(b)}))

\* Array.prototype.sort((a, b) => key(a).localeCompare(key(b))) of a sequence
\* of [key, val] pairs: equal keys keep their order (the sort is stable).
RECURSIVE SortPairs(_)
SortPairs(seq) ==
  IF seq = <<>> THEN <<>>
  ELSE LET Insert(sorted, x) ==
             LET At(k) == SubSeq(sorted, 1, k) \o << x >> \o SubSeq(sorted, k + 1, Len(sorted))
             IN  At(Max({0} \cup {k \in DOMAIN sorted : ~LocaleLess(x.key, sorted[k].key)}))
       IN  Insert(SortPairs(SubSeq(seq, 1, Len(seq) - 1)), seq[Len(seq)])

SortByKey(seq) ==
  LET Vals(sorted) == [i \in DOMAIN sorted |-> sorted[i].val]
  IN  Vals(SortPairs(seq))

(***************************************************************************)
(* list_docs (src/index.ts)                                                *)
(***************************************************************************)

\* An optional argument is <<>> when the caller leaves it out and << v >> when
\* given.  A number is << n >> for the integer n and << n, 5 >> for n + 0.5.
Omitted == <<>>

IsInteger(num) == Len(num) = 1

\* z.number().int().min(1).max(20).optional()
MinLimit == 1

MaxLimit == 20

\* The check of limit without the range 1..20.
LimitAnyInteger(limit) == limit = Omitted \/ IsInteger(limit[1])

LimitValid(limit) ==
  limit = Omitted \/ (IsInteger(limit[1]) /\ limit[1][1] >= MinLimit /\ limit[1][1] <= MaxLimit)

\* z.number().int().min(0).optional()
OffsetValid(offset) ==
  offset = Omitted \/ (IsInteger(offset[1]) /\ offset[1][1] >= 0)

\* listDocsParams
listDocsParams(query, limit, offset) == LimitValid(limit) /\ OffsetValid(offset)

\* The query lowercased only, without the trim.
QueryLowered(query) == IF query = Omitted THEN <<>> ELSE ToLowerCase(query[1])

\* const q = query?.toLowerCase().trim()
QueryOf(query) == IF query = Omitted THEN <<>> ELSE Trim(ToLowerCase(query[1]))

\* The filter callback: if (!q) return true; otherwise title, path or a heading.
Matches(page, q) ==
  \/ q = <<>>
  \/ Includes(ToLowerCase(page.title), q)
  \/ Includes(ToLowerCase(page.relativePath), q)
  \/ \E h \in DOMAIN page.headings : Includes(ToLowerCase(page.headings[h]), q)

RECURSIVE FilterPages(_, _)
FilterPages(ps, q) ==
  IF ps = <<>> THEN <<>>
  ELSE (IF Matches(ps[1], q) THEN << ps[1] >> ELSE <<>>) \o FilterPages(Tail(ps), q)

\* Array.prototype.slice(start, end): a negative index counts from the end.
Slice(seq, start, end) ==
  LET Clamp(i) == IF i < 0 THEN Max({0, Len(seq) + i}) ELSE Min({i, Len(seq)})
  IN  IF Clamp(end) <= Clamp(start) THEN <<>> ELSE SubSeq(seq, Clamp(start) + 1, Clamp(end))

MaxHeadings == 8

\* The entry of a page in results and in groups.
Entry(page) ==
  [uri |-> page.uri, title |-> page.title, relativePath |-> page.relativePath,
   headings |-> Slice(page.headings, 0, MaxHeadings)]

\* The group key of a page: the folder of its relativePath, "/" for the root.
FolderOf(page) ==
  LET Key(folder) == IF folder = << "." >> THEN << "/" >> ELSE folder
  IN  Key(PosixDirname(ReplaceAll(page.relativePath, "\\", "/")))

\* The keys of groupMap in insertion order.
RECURSIVE FolderKeys(_, _)
FolderKeys(ps, seen) ==
  IF ps = <<>> THEN <<>>
  ELSE LET Keyed(k) ==
             IF k \in seen THEN FolderKeys(Tail(ps), seen)
             ELSE << k >> \o FolderKeys(Tail(ps), seen \cup {k})
       IN  Keyed(FolderOf(ps[1]))

RECURSIVE EntriesIn(_, _)
EntriesIn(ps, key) ==
  IF ps = <<>> THEN <<>>
  ELSE (IF FolderOf(ps[1]) = key THEN << Entry(ps[1]) >> ELSE <<>>) \o EntriesIn(Tail(ps), key)

\* The group of folder key: the entries of its pages, sorted by relativePath.
Group(from, key) ==
  LET Sorted(pagesInFolder) ==
        [folder |-> key, count |-> Len(pagesInFolder),
         pages |-> SortByKey([j \in DOMAIN pagesInFolder |->
                                [key |-> pagesInFolder[j].relativePath, val |-> pagesInFolder[j]]])]
  IN  Sorted(EntriesIn(from, key))

\* groups, built from the pages `from` hands over.
GroupsOf(from) ==
  LET Sorted(keys) == [i \in DOMAIN keys |-> Group(from, keys[i])]
      Inserted(keys) == SortByKey([i \in DOMAIN keys |-> [key |-> keys[i], val |-> keys[i]]])
  IN  Sorted(Inserted(FolderKeys(from, {})))

\* The first variant of the handler groups the paged results only.
GroupSourcePaged(filtered, results) == results

\* for (const page of filtered): groups come from the full filtered set.
GroupSource(filtered, results) == filtered

\* The payload of list_docs over the index ps with default page size k.
listDocs(ps, k, query, limit, offset) ==
  LET Paged(filtered, start, size) ==
        LET Payload(paged, results) ==
              [kind |-> "list", ok |-> TRUE, query |-> query, total |-> Len(filtered),
               offset |-> start, limit |-> size, count |-> Len(results), results |-> results,
               groups |-> GroupsOf(GroupSource(filtered, paged))]
            Sliced(paged) == Payload(paged, [i \in DOMAIN paged |-> Entry(paged[i])])
        IN  Sliced(Slice(filtered, start, start + size))
  IN  Paged(FilterPages(ps, QueryOf(query)),
            IF offset = Omitted THEN 0 ELSE offset[1][1],
            IF limit = Omitted THEN k ELSE limit[1][1])

(***************************************************************************)
(* State                                                                   *)
(***************************************************************************)

VARIABLES
  topK,               \* config.topK
  remoteTip,          \* the commit the remote branch points at
  gitDir,             \* whether repoDir/.git exists
  remoteRef,          \* refs/remotes/origin/<branch> of the local repository
  head,               \* HEAD of the local repository
  tree,               \* the working tree under repoDir
  commit, pages, docsDirResolved, discoveryWarnings, lastSyncAt,   \* IndexState
  clock,              \* the time, in completed refreshes
  phase,              \* "starting", "serving" (server started) or "crashed"
  calls,              \* the refreshDocs calls: 0 at startup, the others by the tool
  nRefresh,           \* refresh_docs_index calls made so far
  nPush,              \* updates of the remote branch so far
  req, resp,          \* the last request served and its response
  installed           \* the IndexState the last completed refresh built

gitVars == << gitDir, remoteRef, head, tree >>

indexVars == << commit, pages, docsDirResolved, discoveryWarnings, lastSyncAt >>

vars == << topK, remoteTip, gitVars, indexVars, clock, phase, calls, nRefresh, nPush,
           req, resp, installed >>

IndexState ==
  [commit |-> commit, pages |-> pages, docsDirResolved |-> docsDirResolved,
   discoveryWarnings |-> discoveryWarnings, lastSyncAt |-> lastSyncAt]

\* Bounds of the model.
MaxRefresh == 2

MaxPush == 1

\* The startup call and the two slots for calls of refresh_docs_index.
Startup == 0

CallIds == {Startup, 1, 2}

IdleCall == [pc |-> "idle", cloned |-> FALSE, before |-> NoCommit, oid |-> NoCommit,
             plan |-> {}, after |-> NoCommit, changed |-> FALSE]

NoReq == [kind |-> "none"]

WarnNoDir == "Docs directory not found"

WarnNoPages == "No markdown pages found"

(***************************************************************************)
(* refreshDocs after the sync (src/index.ts 341-348)                       *)
(***************************************************************************)

\* The directory warning pushed onto the warnings at hand, without a reset.
resolveDocsDirKeeping(t) ==
  discoveryWarnings \o (IF ~DirExists(t, docsDir) THEN << WarnNoDir >> ELSE <<>>)

\* resolveDocsDir(): the warnings it leaves.
resolveDocsDir(t) == IF ~DirExists(t, docsDir) THEN << WarnNoDir >> ELSE <<>>

\* The warnings left as they are, whatever was discovered.
WarnNever(files, warnings) == warnings

\* if (files.length === 0) discoveryWarnings.push('No markdown pages found ...')
WarnIfNoPages(files, warnings) ==
  IF files = <<>> THEN Append(warnings, WarnNoPages) ELSE warnings

\* files.map((file) => parseMarkdownFile(file, docsDirResolved))
RECURSIVE ParseAll(_, _)
ParseAll(t, files) ==
  IF files = <<>> THEN <<>>
  ELSE << parseMarkdownFile(t, files[1], docsDir) >> \o ParseAll(t, Tail(files))

\* The statements of refreshDocs that follow the sync, run on working tree t
\* with `cur` the IndexState before them and `synced` the commit the sync
\* returned.  fault names what the file system refuses: "discover" (readdirSync
\* throws), "parse" (readFileSync of a discovered file throws), or "none".
\* ok tells whether the call returned; index is the IndexState it leaves.
RefreshSteps(cur, synced, t, fault, time) ==
  LET Rebuilt(afterResolve, files) ==
        LET Mapped(parsed) ==
              IF files # <<>> /\ (fault = "parse" \/ \E i \in DOMAIN parsed : ~parsed[i].ok)
                THEN [ok |-> FALSE, index |-> afterResolve]
              ELSE [ok |-> TRUE,
                    index |-> [afterResolve EXCEPT
                                 !.pages = [i \in DOMAIN parsed |-> parsed[i].page],
                                 !.discoveryWarnings = WarnIfNoPages(files, @),
                                 !.lastSyncAt = time]]
        IN  IF fault = "discover" /\ DirExists(t, docsDir) THEN [ok |-> FALSE, index |-> afterResolve]
            ELSE Mapped(ParseAll(t, files))
  IN  Rebuilt([cur EXCEPT !.commit = synced, !.docsDirResolved = docsDir,
                          !.discoveryWarnings = resolveDocsDir(t)],
              discoverMarkdownFiles(t, docsDir))

(***************************************************************************)
(* Initial states                                                          *)
(***************************************************************************)

\* The module-level declarations of src/index.ts 295-305.
EmptyIndex ==
  [commit |-> NoCommit, pages |-> <<>>, docsDirResolved |-> docsDir,
   discoveryWarnings |-> <<>>, lastSyncAt |-> 0]

InitIndex ==
  /\ commit = EmptyIndex.commit
  /\ pages = EmptyIndex.pages
  /\ docsDirResolved = EmptyIndex.docsDirResolved
  /\ discoveryWarnings = EmptyIndex.discoveryWarnings
  /\ lastSyncAt = EmptyIndex.lastSyncAt
  /\ installed = EmptyIndex

\* The cache directory is empty, or holds the checkout an earlier run left.
InitRepo ==
  /\ remoteTip \in CommitIds
  /\ \/ /\ gitDir = FALSE
        /\ remoteRef = NoCommit
        /\ head = NoCommit
        /\ tree = TreeOf(<<>>)
     \/ /\ gitDir = TRUE
        /\ head \in CommitIds
        /\ remoteRef = head
        /\ tree = Commits[head]

Init ==
  /\ topK = TopKOf([set |-> FALSE, val |-> <<>>])
  /\ InitRepo
  /\ InitIndex
  /\ clock = 0
  /\ phase = "starting"
  /\ calls = [r \in CallIds |-> IdleCall]
  /\ nRefresh = 0
  /\ nPush = 0
  /\ req = NoReq
  /\ resp = NoReq

(***************************************************************************)
(* The remote repository                                                   *)
(***************************************************************************)

\* Somebody pushes to the branch (or force-pushes it) so that it points at c.
RemotePush(c) ==
  /\ nPush < MaxPush
  /\ c # remoteTip
  /\ remoteTip' = c
  /\ nPush' = nPush + 1
  /\ UNCHANGED << topK, gitVars, indexVars, clock, phase, calls, nRefresh, req, resp, installed >>

(***************************************************************************)
(* syncDocsRepo (src/docs/sync.ts): one action per await                   *)
(***************************************************************************)

Goto(r, label) == [calls EXCEPT ![r].pc = label]

\* A call that threw: at startup the top-level await rejects and the process
\* ends; a tool call returns the error to its caller.
Throws(r) ==
  /\ phase' = IF r = Startup THEN "crashed" ELSE phase
  /\ calls' = [calls EXCEPT ![r] = IdleCall]

\* refreshDocs() is called: syncDocsRepo runs to its first await, git.clone
\* when there is no .git yet and git.resolveRef otherwise.
StartRefresh(r) ==
  /\ calls[r].pc = "idle"
  /\ IF r = Startup THEN phase = "starting" /\ nRefresh = 0 /\ clock = 0
     ELSE phase = "serving" /\ nRefresh < MaxRefresh
  /\ nRefresh' = IF r = Startup THEN nRefresh ELSE nRefresh + 1
  /\ calls' = Goto(r, IF gitDir THEN "before" ELSE "clone")
  /\ UNCHANGED << topK, remoteTip, gitVars, indexVars, clock, phase, nPush, req, resp, installed >>

\* await git.clone(...): a shallow clone of the branch, checked out.
Clone(r) ==
  /\ calls[r].pc = "clone"
  /\ gitDir' = TRUE
  /\ remoteRef' = remoteTip
  /\ head' = remoteTip
  /\ tree' = Commits[remoteTip]
  /\ calls' = [calls EXCEPT ![r].pc = "after", ![r].cloned = TRUE]
  /\ UNCHANGED << topK, remoteTip, indexVars, clock, phase, nRefresh, nPush, req, resp, installed >>

\* const before = await git.resolveRef(HEAD).catch(() => '')
ResolveBefore(r) ==
  /\ calls[r].pc = "before"
  /\ calls' = [calls EXCEPT ![r].pc = "fetch", ![r].before = head]
  /\ UNCHANGED << topK, remoteTip, gitVars, indexVars, clock, phase, nRefresh, nPush, req, resp, installed >>

\* await git.fetch(...): the remote-tracking ref follows the remote branch.
Fetch(r) ==
  /\ calls[r].pc = "fetch"
  /\ remoteRef' = remoteTip
  /\ calls' = Goto(r, "resolve")
  /\ UNCHANGED << topK, remoteTip, gitDir, head, tree, indexVars, clock, phase, nRefresh, nPush,
                  req, resp, installed >>

\* git.clone or git.fetch rejects (network, authentication, unknown branch):
\* syncDocsRepo throws before refreshDocs assigns anything.
SyncFails(r) ==
  /\ calls[r].pc \in {"clone", "fetch"}
  /\ Throws(r)
  /\ UNCHANGED << topK, remoteTip, gitVars, indexVars, clock, nRefresh, nPush, req, resp, installed >>

\* const remoteOid = await git.resolveRef(refs/remotes/origin/<branch>)
ResolveRemote(r) ==
  /\ calls[r].pc = "resolve"
  /\ calls' = [calls EXCEPT ![r].pc = "plan", ![r].oid = remoteRef]
  /\ UNCHANGED << topK, remoteTip, gitVars, indexVars, clock, phase, nRefresh, nPush, req, resp, installed >>

\* await git.checkout({ref: remoteOid, force: true}), first part: the checkout
\* compares the commit with the working tree and lists the files to rewrite.
CheckoutPlan(r) ==
  /\ calls[r].pc = "plan"
  /\ calls' = [calls EXCEPT ![r].pc = "apply",
                            ![r].plan = {f \in RepoFiles : tree[f] # Commits[calls[r].oid][f]}]
  /\ UNCHANGED << topK, remoteTip, gitVars, indexVars, clock, phase, nRefresh, nPush, req, resp, installed >>

\* git.checkout, second part: the listed files are rewritten and HEAD moves.
CheckoutApply(r) ==
  /\ calls[r].pc = "apply"
  /\ tree' = [f \in RepoFiles |-> IF f \in calls[r].plan THEN Commits[calls[r].oid][f] ELSE tree[f]]
  /\ head' = calls[r].oid
  /\ calls' = [calls EXCEPT ![r].pc = "after", ![r].plan = {}]
  /\ UNCHANGED << topK, remoteTip, gitDir, remoteRef, indexVars, clock, phase, nRefresh, nPush,
                  req, resp, installed >>

\* A sync that reports a change whatever it found.
ChangedAlways(cloned, before, after) == TRUE

\* changed: true after a clone, before !== after otherwise.
Changed(cloned, before, after) == cloned \/ before # after

\* const after = await git.resolveRef(HEAD); return {commit, changed}
ResolveAfter(r) ==
  /\ calls[r].pc = "after"
  /\ calls' = [calls EXCEPT ![r].pc = "build", ![r].after = head,
                            ![r].changed = Changed(calls[r].cloned, calls[r].before, head)]
  /\ UNCHANGED << topK, remoteTip, gitVars, indexVars, clock, phase, nRefresh, nPush, req, resp, installed >>

(***************************************************************************)
(* refreshDocs, from the return of the sync to its end                     *)
(***************************************************************************)

SetIndex(ix) ==
  /\ commit' = ix.commit
  /\ pages' = ix.pages
  /\ docsDirResolved' = ix.docsDirResolved
  /\ discoveryWarnings' = ix.discoveryWarnings
  /\ lastSyncAt' = ix.lastSyncAt

\* The response of a tool whose handler threw.
Failed(kind, msg) == [kind |-> kind, ok |-> FALSE, err |-> msg]

\* The call returns: the new index is in place; at startup the server is then
\* created and started, a tool call answers {ok, commit, lastSyncAt, pages}.
RefreshDone(r) ==
  /\ calls[r].pc = "build"
  /\ LET Install(out) ==
           /\ out.ok
           /\ SetIndex(out.index)
           /\ installed' = out.index
           /\ req' = IF r = Startup THEN req ELSE [kind |-> "refresh"]
           /\ resp' = IF r = Startup THEN resp
                      ELSE [kind |-> "refresh", ok |-> TRUE, commit |-> out.index.commit,
                            lastSyncAt |-> out.index.lastSyncAt, pages |-> Len(out.index.pages)]
     IN  Install(RefreshSteps(IndexState, calls[r].after, tree, "none", clock + 1))
  /\ clock' = clock + 1
  /\ phase' = IF r = Startup THEN "serving" ELSE phase
  /\ calls' = [calls EXCEPT ![r] = IdleCall]
  /\ UNCHANGED << topK, remoteTip, gitVars, nRefresh, nPush >>

\* Discovery or the parsing of a page throws: the call ends there, with the
\* assignments made so far in place.
RefreshThrows(r, fault) ==
  /\ calls[r].pc = "build"
  /\ LET Leave(out) == ~out.ok /\ SetIndex(out.index)
     IN  Leave(RefreshSteps(IndexState, calls[r].after, tree, fault, clock + 1))
  /\ Throws(r)
  /\ req' = IF r = Startup THEN req ELSE [kind |-> "refresh"]
  /\ resp' = IF r = Startup THEN resp ELSE Failed("refresh", "refresh failed")
  /\ UNCHANGED << topK, remoteTip, gitVars, clock, nRefresh, nPush, installed >>

(***************************************************************************)
(* The tools and the resource template (src/index.ts 359-501)              *)
(***************************************************************************)

\* A handler that reverses pages in place (pages.reverse()) while it answers.
ServeReversing(request, response) ==
  /\ phase = "serving"
  /\ req' = request
  /\ resp' = response
  /\ pages' = [i \in DOMAIN pages |-> pages[Len(pages) + 1 - i]]
  /\ UNCHANGED << topK, remoteTip, gitVars, commit, docsDirResolved, discoveryWarnings, lastSyncAt,
                  clock, phase, calls, nRefresh, nPush, installed >>

\* A handler that answers whether or not the server has been started.
ServeUnstarted(request, response) ==
  /\ req' = request
  /\ resp' = response
  /\ UNCHANGED << topK, remoteTip, gitVars, indexVars, clock, phase, calls, nRefresh, nPush, installed >>

\* A handler runs only once server.start has been reached (src/index.ts 503),
\* which follows the top-level await of the first refreshDocs (351).
Serve(request, response) ==
  /\ phase = "serving"
  /\ req' = request
  /\ resp' = response
  /\ UNCHANGED << topK, remoteTip, gitVars, indexVars, clock, phase, calls, nRefresh, nPush, installed >>

\* list_docs
ListDocs(query, limit, offset) ==
  Serve([kind |-> "list", query |-> query, limit |-> limit, offset |-> offset],
        IF ~listDocsParams(query, limit, offset) THEN Failed("list", "invalid arguments")
        ELSE listDocs(pages, topK, query, limit, offset))

\* The read without the resolution: the rest of the uri taken as the path.
ReadUnresolved(kind, uri) ==
  LET Read(text, p) ==
        IF ~text.ok THEN Failed(kind, "ENOENT")
        ELSE [kind |-> kind, ok |-> TRUE, uri |-> uri, content |-> text.doc, path |-> p]
      At(p) == Read(ReadFileSync(tree, p), p)
  IN  At(PathResolve(docsDirResolved, SubSeq(uri, Len(prefix) + 1, Len(uri))))

\* A read that looks the uri up in pages first and refuses what is not there.
ReadIndexed(kind, uri) ==
  IF \A i \in DOMAIN pages : pages[i].uri # uri THEN Failed(kind, "not indexed")
  ELSE ReadUnresolved(kind, uri)

\* What read_doc and the resource template do with a uri: resolve, then read.
ReadAt(kind, uri) ==
  LET Resolved(filePath) ==
        IF ~filePath.ok THEN Failed(kind, filePath.err)
        ELSE LET Read(text) ==
                   IF ~text.ok THEN Failed(kind, "ENOENT")
                   ELSE [kind |-> kind, ok |-> TRUE, uri |-> uri, content |-> text.doc,
                         path |-> filePath.path]
             IN  Read(ReadFileSync(tree, filePath.path))
  IN  Resolved(resolveDocFilePath(docsDirResolved, uri))

\* read_doc; readDocParams wants the uri to start with the prefix.
ReadDoc(uri) ==
  Serve([kind |-> "read", uri |-> uri],
        IF ~StartsWith(uri, prefix) THEN Failed("read", "invalid arguments")
        ELSE ReadAt("read", uri))

\* The load function of the resource template feathers-doc://docs/{path}.
LoadResource(docPath) ==
  Serve([kind |-> "resource", path |-> docPath], ReadAt("resource", prefix \o docPath))

\* get_docs_status
GetDocsStatus ==
  Serve([kind |-> "status"],
        [kind |-> "status", ok |-> TRUE, commit |-> commit, lastSyncAt |-> lastSyncAt,
         pages |-> Len(pages), docsDirResolved |-> docsDirResolved,
         docsDirExists |-> DirExists(tree, docsDirResolved),
         discoveryWarnings |-> discoveryWarnings])

(***************************************************************************)
(* The server                                                              *)
(***************************************************************************)

Faults == {"none", "discover", "parse"}

\* The uris of the last response, when it is a list.
ListedUris ==
  IF resp.kind = "list" /\ resp.ok THEN {resp.results[i].uri : i \in DOMAIN resp.results} ELSE {}

\* read_doc of a uri the last list_docs returned.
ReadListed == \E uri \in ListedUris : ReadDoc(uri)

\* The limits list_docs is called with while the index is refreshed: none,
\* and 0, which listDocsParams rejects.
ListLimits == {Omitted, << << 0 >> >>}

\* The values of {path} the resource is loaded with while the index is
\* refreshed: a page, a file that is no page, and a path that leaves the docs
\* directory.
LoadedPaths ==
  {<< "a", ".", "m", "d" >>, << "n", ".", "t", "x", "t" >>, << ".", ".", "/", ".", ".", "/", "x" >>}

Next ==
  \/ \E c \in CommitIds : RemotePush(c)
  \/ \E r \in CallIds : StartRefresh(r)
  \/ \E r \in CallIds : Clone(r)
  \/ \E r \in CallIds : ResolveBefore(r)
  \/ \E r \in CallIds : Fetch(r)
  \/ \E r \in CallIds : SyncFails(r)
  \/ \E r \in CallIds : ResolveRemote(r)
  \/ \E r \in CallIds : CheckoutPlan(r)
  \/ \E r \in CallIds : CheckoutApply(r)
  \/ \E r \in CallIds : ResolveAfter(r)
  \/ \E r \in CallIds : RefreshDone(r)
  \/ \E r \in CallIds, fault \in Faults : RefreshThrows(r, fault)
  \/ \E limit \in ListLimits : ListDocs(Omitted, limit, Omitted)
  \/ ReadListed
  \/ \E docPath \in LoadedPaths : LoadResource(docPath)
  \/ GetDocsStatus

Spec == Init /\ [][Next]_vars

(***************************************************************************)
(* The server after its startup refresh                                    *)
(***************************************************************************)

NotSet == [set |-> FALSE, val |-> <<>>]

\* The state the startup refresh of an empty cache directory leaves when the
\* remote branch points at commit c and TOP_K is env: the server is started
\* and no tool has been called.
Served(c, env) ==
  LET Started(built) ==
        /\ built.ok
        /\ topK = TopKOf(env)
        /\ remoteTip = c
        /\ gitDir = TRUE
        /\ remoteRef = c
        /\ head = c
        /\ tree = Commits[c]
        /\ commit = built.index.commit
        /\ pages = built.index.pages
        /\ docsDirResolved = built.index.docsDirResolved
        /\ discoveryWarnings = built.index.discoveryWarnings
        /\ lastSyncAt = built.index.lastSyncAt
        /\ installed = built.index
        /\ clock = 1
        /\ phase = "serving"
        /\ calls = [r \in CallIds |-> IdleCall]
        /\ nRefresh = 0
        /\ nPush = 0
        /\ req = NoReq
        /\ resp = NoReq
  IN  Started(RefreshSteps(EmptyIndex, c, Commits[c], "none", 1))

(***************************************************************************)
(* read_doc and the resource template over a set of uris                   *)
(***************************************************************************)

\* Most segments of the path of a uri.
MaxUriSegs == 3

UriSegs ==
  { << ".", "." >>, <<>>, << "a", ".", "m", "d" >>, << "x" >>, << "b", ".", "m", "d" >>,
    << "d", "o", "c", "s", "-", "x" >>, << "s", ".", "m", "d" >>,
    << "%", "2", "e", "%", "2", "e" >>, << "c", "%", ".", "m", "d" >>,
    << "c", "%", "2", "5", ".", "m", "d" >> }

RECURSIVE PathsOfLen(_)
PathsOfLen(n) ==
  IF n = 1 THEN UriSegs
  ELSE {p \o << "/" >> \o seg : p \in PathsOfLen(n - 1), seg \in UriSegs}

\* The values of {path} the resource template is loaded with.
DocPaths == UNION {PathsOfLen(n) : n \in 1..MaxUriSegs}

\* The uris read_doc is called with: the prefix and a path, and two strings
\* that do not start with the prefix.
Uris == {prefix \o p : p \in DocPaths} \cup {SubSeq(prefix, 1, Len(prefix) - 1), fileA}

InitUri == \E c \in CommitIds : Served(c, NotSet)

ListAll == req = NoReq /\ ListDocs(Omitted, Omitted, Omitted)

ReadAny == req = NoReq /\ \E uri \in Uris : ReadDoc(uri)

LoadAny == req = NoReq /\ \E docPath \in DocPaths : LoadResource(docPath)

NextUri == ListAll \/ ReadListed \/ ReadAny \/ LoadAny

SpecUri == InitUri /\ [][NextUri]_vars

(***************************************************************************)
(* list_docs over a set of arguments                                       *)
(***************************************************************************)

Num(n) == << << n >> >>

Half(n) == << << n, 5 >> >>

Queries ==
  { Omitted, << <<>> >>, << << "a" >> >>, << << "A", "P", "I" >> >>, << << " ", "a", "p", "i", " " >> >>,
    << << " " >> >>, << << "x", "/" >> >>, << << "x", "\\" >> >>, << << "9" >> >>,
    << << "z", "z" >> >> }

Limits ==
  {Omitted, Num(0 - 1), Num(0), Num(1), Num(2), Num(MaxLimit), Num(MaxLimit + 1), Half(1)}

Offsets == {Omitted, Num(0), Num(1), Num(3), Num(4), Num(5), Num(0 - 1), Half(0)}

InitList == \E c \in CommitIds, env \in TopKEnv : Served(c, env)

ListAny ==
  req = NoReq /\ \E query \in Queries, limit \in Limits, offset \in Offsets : ListDocs(query, limit, offset)

NextList == ListAny

SpecList == InitList /\ [][NextList]_vars

(***************************************************************************)
(* Properties                                                              *)
(***************************************************************************)

\* resolved is root itself or lies below it.
Inside(resolved, root) == resolved = root \/ StartsWith(resolved, root \o << "/" >>)

\* The uri a read_doc or resource request hands to resolveDocFilePath.
RequestUri == IF req.kind = "read" THEN req.uri ELSE prefix \o req.path

\* C1: for every uri read_doc or the templated resource is asked for,
\* resolveDocFilePath fails or returns the docs root or a path inside it, so
\* that no answer carries a file from outside the docs root (a sibling
\* directory whose name begins with the root's name included).
C1_ResolvedInsideRoot ==
  req.kind \in {"read", "resource"} =>
    LET Contained(filePath) == filePath.ok => Inside(filePath.path, docsDirResolved)
    IN  /\ Contained(resolveDocFilePath(docsDirResolved, RequestUri))
        /\ resp.ok => Inside(resp.path, docsDirResolved)

\* C2: a call of refreshDocs that fails while the server is serving leaves
\* commit, pages, docsDirResolved, discoveryWarnings and lastSyncAt as they
\* were before it.  (A call ends in failure when it goes back to idle and
\* the clock of completed refreshes stands still.)
C2_FailedRefreshKeepsIndex ==
  [][\A r \in CallIds :
       (phase = "serving" /\ calls[r].pc # "idle" /\ calls'[r].pc = "idle" /\ clock' = clock)
         => UNCHANGED indexVars]_vars

\* C3: whatever refreshes run or have run, get_docs_status and list_docs
\* answer from a complete index, the one the last refresh that completed put
\* in place, never from a mix of a newer commit or newer warnings with older
\* pages.
C3_RequestsSeeCompleteIndex ==
  /\ req.kind = "status" =>
       /\ resp.commit = installed.commit
       /\ resp.pages = Len(installed.pages)
       /\ resp.discoveryWarnings = installed.discoveryWarnings
       /\ resp.lastSyncAt = installed.lastSyncAt
  /\ req.kind = "list" /\ resp.ok /\ req.query = Omitted => resp.total = Len(installed.pages)

\* The index a refresh running alone leaves when its sync returns commit c
\* and it completes at time t.
AloneAt(c, t) == RefreshSteps(EmptyIndex, c, Commits[c], "none", t)

\* C4: once the refresh_docs_index calls have returned, the last of them
\* successfully, the index is the one a single call would have produced: its
\* pages and warnings describe the working tree of the commit it records.
C4_FinalIndexOfOneCall ==
  (phase = "serving" /\ (\A r \in CallIds : calls[r].pc = "idle") /\ IndexState = installed)
    => LET Same(alone) == alone.ok /\ alone.index = IndexState
       IN  Same(AloneAt(commit, lastSyncAt))

\* The places of the entries of groups: group g, entry k.
GroupSlots(groups) ==
  UNION {{<< g, k >> : k \in DOMAIN groups[g].pages} : g \in DOMAIN groups}

RECURSIVE SumCount(_)
SumCount(groups) == IF groups = <<>> THEN 0 ELSE groups[1].count + SumCount(Tail(groups))

\* C5: in every answer of list_docs the groups partition the filtered set:
\* each filtered page is an entry of exactly one group, each entry is a
\* filtered page, and the counts of the groups add up to total, whatever
\* limit and offset are.
C5_GroupsPartitionFiltered ==
  req.kind = "list" /\ resp.ok =>
    LET Partition(filtered, slots) ==
          /\ \A i \in DOMAIN filtered :
               Cardinality({gk \in slots :
                              resp.groups[gk[1]].pages[gk[2]].relativePath = filtered[i].relativePath}) = 1
          /\ \A gk \in slots : \E i \in DOMAIN filtered :
               resp.groups[gk[1]].pages[gk[2]].relativePath = filtered[i].relativePath
          /\ SumCount(resp.groups) = Len(filtered)
          /\ SumCount(resp.groups) = resp.total
    IN  Partition(FilterPages(pages, QueryOf(req.query)), GroupSlots(resp.groups))

\* list_docs answered with more filtered pages than it returned, in more than
\* one folder, with an offset beyond the filtered set or a limit below it.
C5_Witness ==
  /\ req.kind = "list" /\ resp.ok
  /\ resp.total >= 3
  /\ resp.count < resp.total
  /\ Len(resp.groups) >= 2
  /\ SumCount(resp.groups) = resp.total

\* C6: in every answer of list_docs, total is the size T of the filtered set,
\* count is min(limit, max(0, T - offset)), and count is 0 when offset >= T.
C6_PaginationLaw ==
  req.kind = "list" /\ resp.ok =>
    LET Law(T) ==
          /\ resp.total = T
          /\ resp.count = Min({resp.limit, Max({0, T - resp.offset})})
          /\ resp.offset >= T => resp.count = 0
    IN  Law(Len(FilterPages(pages, QueryOf(req.query))))

\* s is a substring of the page's lowercased title, relativePath or of one
\* of its lowercased headings.
Mentions(page, s) ==
  \/ Includes(ToLowerCase(page.title), s)
  \/ Includes(ToLowerCase(page.relativePath), s)
  \/ \E h \in DOMAIN page.headings : Includes(ToLowerCase(page.headings[h]), s)

\* The relativePaths of the entries of the groups of the answer.
GroupedPaths ==
  {resp.groups[gk[1]].pages[gk[2]].relativePath : gk \in GroupSlots(resp.groups)}

\* The pages list_docs is to keep when s stands for the query.
Kept(s) == {i \in DOMAIN pages : req.query = Omitted \/ Mentions(pages[i], s)}

\* C7, as the code has it: a page is in the filtered set iff the query,
\* lowercased and with the white space at its two ends removed, is a
\* substring of the page's lowercased title, relativePath or of any of its
\* lowercased headings; with no query, or one of white space only, every page
\* is in the filtered set.
C7_FilterTrimmedQuery ==
  req.kind = "list" /\ resp.ok =>
    LET Filtered(kept) ==
          /\ GroupedPaths = {pages[i].relativePath : i \in kept}
          /\ resp.total = Cardinality(kept)
    IN  Filtered(Kept(IF req.query = Omitted THEN <<>> ELSE Trim(ToLowerCase(req.query[1]))))

\* list_docs answered a query that has white space around a word of two
\* titles with the two pages.
C7_Witness ==
  /\ req.kind = "list" /\ resp.ok
  /\ req.query = << << " ", "a", "p", "i", " " >> >>
  /\ resp.total = 2

\* C7, as stated: a page is in the filtered set iff the lowercased query is a
\* substring of the page's lowercased title, relativePath or of any of its
\* lowercased headings; with no query every page is in the filtered set.
C7_FilterLoweredQuery ==
  req.kind = "list" /\ resp.ok =>
    LET Filtered(kept) ==
          /\ GroupedPaths = {pages[i].relativePath : i \in kept}
          /\ resp.total = Cardinality(kept)
    IN  Filtered(Kept(IF req.query = Omitted THEN <<>> ELSE ToLowerCase(req.query[1])))

\* C8: for every page of the index, resolveDocFilePath of the uri toUri gives
\* its relativePath succeeds and returns the absolute path of that
\* relativePath under the docs root.
C8_UriRoundTrip ==
  \A i \in DOMAIN pages :
    LET Back(filePath) ==
          filePath.ok /\ filePath.path = PathJoin(docsDirResolved, pages[i].relativePath)
    IN  Back(resolveDocFilePath(docsDirResolved, toUri(pages[i].relativePath)))

\* C9: the pages the last successful refresh put in place have pairwise
\* distinct uris.
C9_UrisDistinct ==
  \A i, j \in DOMAIN installed.pages :
    installed.pages[i].uri = installed.pages[j].uri => i = j

\* C10: read_doc of a uri that the list_docs answered just before returned
\* succeeds, returns the uri it was asked for and the content of the file the
\* listed page was parsed from.
C10_ReadOfListedUri ==
  [][\A i \in DOMAIN pages :
       (/\ resp.kind = "list" /\ resp.ok
        /\ \E j \in DOMAIN resp.results : resp.results[j].uri = pages[i].uri
        /\ req'.kind = "read" /\ req'.uri = pages[i].uri
        /\ UNCHANGED << tree, indexVars >>)
         => (resp'.ok /\ resp'.uri = req'.uri /\ resp'.content = pages[i].checksum)]_vars

\* The arguments of the list_docs request are outside what the tool accepts:
\* limit is given and is not an integer in 1..20, or offset is given and is
\* not an integer >= 0.
BadListArguments(request) ==
  \/ request.limit # Omitted /\
       ~(Len(request.limit[1]) = 1 /\ request.limit[1][1] \in MinLimit..MaxLimit)
  \/ request.offset # Omitted /\ ~(Len(request.offset[1]) = 1 /\ request.offset[1][1] >= 0)

\* C11: a list_docs call whose limit is not an integer in 1..20 or whose
\* offset is not an integer >= 0 is answered with an argument error and
\* nothing else (no total, results or groups), and leaves the five fields of
\* the index as they were.
C11_BadArgumentsRejected ==
  [][(req'.kind = "list" /\ BadListArguments(req'))
       => (resp' = Failed("list", "invalid arguments") /\ UNCHANGED indexVars)]_vars

\* list_docs was called with limit 21 on an index that holds pages and was
\* rejected.
C11_Witness ==
  /\ req.kind = "list" /\ req.limit = Num(MaxLimit + 1)
  /\ resp = Failed("list", "invalid arguments")
  /\ pages # <<>>

(***************************************************************************)
(* Refreshes of a repository that stands still                             *)
(***************************************************************************)

\* refresh_docs_index is called while no other call is running.
QuietStart(r) == (\A q \in CallIds : calls[q].pc = "idle") /\ StartRefresh(r)

\* The server after its startup refresh, with a remote branch that does not
\* move and a file system that does not fail: refresh_docs_index is called
\* again and again, one call at a time; git.fetch may still reject.
NextQuiet ==
  \/ \E r \in CallIds : QuietStart(r)
  \/ \E r \in CallIds : ResolveBefore(r)
  \/ \E r \in CallIds : Fetch(r)
  \/ \E r \in CallIds : SyncFails(r)
  \/ \E r \in CallIds : ResolveRemote(r)
  \/ \E r \in CallIds : CheckoutPlan(r)
  \/ \E r \in CallIds : CheckoutApply(r)
  \/ \E r \in CallIds : ResolveAfter(r)
  \/ \E r \in CallIds : RefreshDone(r)
  \/ ListDocs(Omitted, Omitted, Omitted)
  \/ GetDocsStatus

SpecQuiet == InitUri /\ [][NextQuiet]_vars

\* C12: a refresh that follows a completed refresh, with no change of the
\* remote branch or of the files in between, gets changed = false and the
\* same commit from its sync, and leaves the pages the first refresh left
\* (same length, order and records).
C12_SecondRefreshSame ==
  [][\A r \in CallIds :
       (calls[r].pc = "build" /\ calls'[r].pc = "idle" /\ clock' = clock + 1)
         => (/\ ~calls[r].changed
             /\ calls[r].after = commit
             /\ commit' = commit
             /\ pages' = pages)]_vars

\* A second refresh has completed on an index of several pages.
C12_Witness ==
  /\ req.kind = "refresh" /\ resp.ok
  /\ clock = 2
  /\ Len(pages) >= 2
  /\ resp.commit = installed.commit

\* C13: a call of refreshDocs whose sync has returned completes: it ends as
\* a completed refresh, with the index it built in place, whatever the docs
\* tree holds.
C13_RefreshFailsOnlyWithSync ==
  [][\A r \in CallIds :
       (calls[r].pc = "build" /\ calls'[r].pc = "idle")
         => (clock' = clock + 1 /\ installed' = IndexState')]_vars

\* The name of the file of a page without the suffix .md.
NameOf(page) ==
  LET Stem(name) == SubSeq(name, 1, Len(name) - Len(mdSuffix))
  IN  Stem(Last(SplitOn(page.relativePath, "/")))

\* C14: the title of every page is the front-matter title when that field is
\* a string, otherwise the first heading when there is one, otherwise the
\* file name without .md; and it is never the empty string.
C14_TitleResolvedNonEmpty ==
  \A i \in DOMAIN pages :
    /\ pages[i].title =
         IF Docs[pages[i].checksum].fm = "string" THEN Docs[pages[i].checksum].title
         ELSE IF pages[i].headings # <<>> THEN pages[i].headings[1]
         ELSE NameOf(pages[i])
    /\ pages[i].title # <<>>

\* C15: read_doc and the templated resource return content only of the file
\* at the path resolveDocFilePath returned for the uri; when the resolution
\* rejects the uri (or the arguments are refused before it) the answer is
\* the error alone, with no content and no file read.
C15_ReadOnlyAfterResolution ==
  req.kind \in {"read", "resource"} =>
    LET After(filePath) ==
          /\ resp.ok => /\ filePath.ok
                        /\ resp.path = filePath.path
                        /\ resp.content = ReadFileSync(tree, filePath.path).doc
          /\ ~filePath.ok => resp \in {Failed(req.kind, filePath.err),
                                       Failed(req.kind, "invalid arguments")}
    IN  After(resolveDocFilePath(docsDirResolved, RequestUri))

\* The templated resource was asked for a path that leaves the docs root and
\* answered with the traversal error.
C15_Witness ==
  /\ req.kind = "resource"
  /\ StartsWith(req.path, << ".", ".", "/", ".", "." >>)
  /\ resp = Failed("resource", "Path traversal detected")

\* C16: when the docs directory was not there at the refresh (and is still
\* not there), the index has no pages and carries the warning 'Docs directory
\* not found', get_docs_status reports docsDirExists = false and pages = 0,
\* list_docs returns total 0 with no results and no groups, and read_doc
\* fails for every uri.
C16_MissingDocsDir ==
  ~DirExists(tree, docsDir) =>
    /\ pages = <<>>
    /\ \E w \in DOMAIN discoveryWarnings : discoveryWarnings[w] = WarnNoDir
    /\ req.kind = "status" => ~resp.docsDirExists /\ resp.pages = 0
    /\ req.kind = "list" /\ resp.ok => resp.total = 0 /\ resp.results = <<>> /\ resp.groups = <<>>
    /\ req.kind = "read" => ~resp.ok

\* C17: the step that completes a refresh leaves pages empty exactly when the
\* warnings it leaves hold 'No markdown pages found'; when the docs directory
\* exists without any .md file, it leaves no page and that warning, and the
\* status and the listing taken from the index it leaves report 0 pages, the
\* warning, total 0, no results and no groups.
C17_EmptyIffWarned ==
  [][\A r \in CallIds :
       (calls[r].pc = "build" /\ calls'[r].pc = "idle" /\ clock' = clock + 1)
         => LET Warned == \E w \in DOMAIN discoveryWarnings' : discoveryWarnings'[w] = WarnNoPages
                Listed(list) == list.ok /\ list.total = 0 /\ list.results = <<>> /\ list.groups = <<>>
            IN  /\ (pages' = <<>>) <=> Warned
                /\ (DirExists(tree, docsDir) /\ discoverMarkdownFiles(tree, docsDir) = <<>>)
                     => /\ pages' = <<>>
                        /\ Warned
                        /\ (r # Startup => resp'.pages = 0)
                        /\ Listed(listDocs(pages', topK, Omitted, Omitted, Omitted))]_vars

\* A status taken from the index of a refresh that found the docs directory
\* without markdown files.
C17_Witness ==
  /\ req.kind = "status"
  /\ resp.docsDirExists
  /\ resp.pages = 0
  /\ resp.discoveryWarnings = << WarnNoPages >>
  /\ installed.pages = <<>>
  /\ installed.commit = commit

\* The warnings one refresh of the tree t produces.
WarningsOf(t) ==
  (IF ~DirExists(t, docsDir) THEN << WarnNoDir >> ELSE <<>>)
    \o (IF discoverMarkdownFiles(t, docsDir) = <<>> THEN << WarnNoPages >> ELSE <<>>)

\* C18: discoveryWarnings never grows from refresh to refresh: in every state
\* it is at most one 'Docs directory not found' followed by at most one
\* 'No markdown pages found', and each warning it holds is one the most recent
\* completed refresh left; the step that completes a refresh leaves the
\* warnings of the tree it read, whatever the warnings were before, and none
\* when it found the docs directory with at least one page.
C18_WarningsOfLastRefresh ==
  /\ [](/\ discoveryWarnings \in {<<>>, << WarnNoDir >>, << WarnNoPages >>, << WarnNoDir, WarnNoPages >>}
        /\ \A w \in DOMAIN discoveryWarnings :
             \E v \in DOMAIN installed.discoveryWarnings :
               installed.discoveryWarnings[v] = discoveryWarnings[w])
  /\ [][\A r \in CallIds :
          (calls[r].pc = "build" /\ calls'[r].pc = "idle" /\ clock' = clock + 1)
            => /\ discoveryWarnings' = WarningsOf(tree)
               /\ (DirExists(tree, docsDir) /\ pages' # <<>>) => discoveryWarnings' = <<>>]_vars

\* A second refresh of a checkout without docs directory has completed: the
\* two warnings are there once each.
C18_Witness ==
  /\ clock = 2
  /\ req.kind = "refresh" /\ resp.ok
  /\ ~DirExists(tree, docsDir)
  /\ installed.commit = head
  /\ discoveryWarnings = << WarnNoDir, WarnNoPages >>

\* A request has been answered or a call of refresh_docs_index is under way.
RequestSeen == req # NoReq \/ resp # NoReq \/ \E r \in CallIds \ {Startup} : calls[r].pc # "idle"

\* C19: no request is answered, and no call of refresh_docs_index runs, before
\* the first refreshDocs has completed: whenever one is seen the server is
\* serving, the startup call is over and a completed refresh has installed an
\* index with a commit.  The server starts serving only by the step that
\* completes the startup refresh, and a process whose first refresh failed
\* stays ended with no request answered.
C19_ServesAfterFirstRefresh ==
  /\ [](/\ RequestSeen => phase = "serving"
        /\ phase = "serving" => /\ calls[Startup].pc = "idle"
                                /\ clock >= 1
                                /\ installed.commit # NoCommit
                                /\ installed.lastSyncAt >= 1
        /\ phase = "crashed" => ~RequestSeen /\ installed = EmptyIndex)
  /\ [][/\ (phase # "serving" /\ phase' = "serving")
             => (calls[Startup].pc = "build" /\ clock' = 1 /\ installed' = IndexState')
        /\ phase = "crashed" => phase' = "crashed" /\ req' = req /\ resp' = resp]_vars

\* The first answer of a server: the status of the index the startup refresh
\* installed.
C19_Witness ==
  /\ phase = "serving"
  /\ clock = 1
  /\ nRefresh = 0
  /\ req.kind = "status"
  /\ resp.commit = installed.commit
  /\ resp.lastSyncAt = 1

\* The first refresh failed after the sync: the process has ended.
C19_CrashedReached == phase = "crashed" /\ commit # NoCommit

\* C20: a step that answers list_docs, read_doc, get_docs_status or a load of
\* the resource, with a result or with an error, leaves commit, pages,
\* docsDirResolved, discoveryWarnings and lastSyncAt as they are; a step that
\* changes one of them is the last step of a call of refreshDocs.
C20_OnlyRefreshChangesIndex ==
  [][/\ ((req' # req \/ resp' # resp) /\ req'.kind \in {"list", "read", "resource", "status"})
          => UNCHANGED indexVars
     /\ indexVars' # indexVars
          => \E r \in CallIds : calls[r].pc = "build" /\ calls'[r].pc = "idle"]_vars

\* A load of the resource has failed after the second refresh, and the index
\* is the one that refresh installed.
C20_Witness ==
  /\ req.kind = "resource"
  /\ ~resp.ok
  /\ clock = 2
  /\ pages # <<>>
  /\ IndexState = installed

\* String.prototype.replaceAll('\\\\', '/'): each pair of backslashes becomes
\* one '/', scanning from the left.
RECURSIVE ReplacePairs(_)
ReplacePairs(s) ==
  IF Len(s) < 2 THEN s
  ELSE IF s[1] = "\\" /\ s[2] = "\\" THEN << "/" >> \o ReplacePairs(SubSeq(s, 3, Len(s)))
  ELSE << s[1] >> \o ReplacePairs(Tail(s))

\* The section the grouped-output test expects for a page: the parent folder
\* of its relativePath, '/' for a file directly under the docs root.
ParentFolder(relativePath) ==
  LET Key(folder) == IF folder = << "." >> THEN << "/" >> ELSE folder
  IN  Key(PosixDirname(ReplacePairs(relativePath)))

\* C21: in every answer of list_docs each group's count is the number of its
\* entries, every entry of a group has the group's folder as the parent folder
\* of its relativePath ('/' for a file directly under the docs root), no group
\* is empty, and the parent folder of every entry of results is the folder of
\* one of the groups.
C21_GroupsByParentFolder ==
  req.kind = "list" /\ resp.ok =>
    /\ \A g \in DOMAIN resp.groups :
         /\ resp.groups[g].count = Len(resp.groups[g].pages)
         /\ resp.groups[g].pages # <<>>
         /\ \A k \in DOMAIN resp.groups[g].pages :
              ParentFolder(resp.groups[g].pages[k].relativePath) = resp.groups[g].folder
    /\ \A i \in DOMAIN resp.results :
         \E g \in DOMAIN resp.groups :
           resp.groups[g].folder = ParentFolder(resp.results[i].relativePath)

\* C22: in every answer of list_docs the filtered set keeps the order of
\* pages, results holds the entries of the filtered pages at the places
\* offset + 1 .. offset + limit that exist, in that order, and each entry has
\* the uri, title and relativePath of its page and the first min(8, n) of its
\* n headings.
C22_ResultsAreSlice ==
  req.kind = "list" /\ resp.ok =>
    LET Sliced(filtered) ==
          /\ \A j \in DOMAIN filtered, k \in DOMAIN filtered :
               j < k => \E a \in DOMAIN pages, b \in DOMAIN pages :
                          a < b /\ pages[a] = filtered[j] /\ pages[b] = filtered[k]
          /\ Len(resp.results)
               = Cardinality({i \in DOMAIN filtered : resp.offset < i /\ i <= resp.offset + resp.limit})
          /\ \A k \in DOMAIN resp.results :
               /\ resp.results[k].uri = filtered[resp.offset + k].uri
               /\ resp.results[k].title = filtered[resp.offset + k].title
               /\ resp.results[k].relativePath = filtered[resp.offset + k].relativePath
               /\ resp.results[k].headings
                    = SubSeq(filtered[resp.offset + k].headings, 1,
                             Min({MaxHeadings, Len(filtered[resp.offset + k].headings)}))
    IN  Sliced(FilterPages(pages, QueryOf(req.query)))

\* The .md files of working tree t under the docs root.
MarkdownFiles(t) ==
  {f \in RepoFiles : /\ t[f] # NoFile
                     /\ StartsWith(FullPath(f), docsDir \o << "/" >>)
                     /\ EndsWith(f, mdSuffix)}

\* The full path of the file a page was parsed from.
PageFile(page) == docsDir \o << "/" >> \o page.relativePath

\* C23: the step that completes a refresh leaves in pages one record for each
\* file under the docs root whose name ends with .md in small letters, and no
\* other record; the records are in strictly ascending order of the full path
\* by code units, each holds the content of its file, and the sequence is the
\* one a refresh of the same tree builds from the empty index.
C23_PagesAreTheMarkdownFiles ==
  [][\A r \in CallIds :
       (calls[r].pc = "build" /\ calls'[r].pc = "idle" /\ clock' = clock + 1)
         => /\ Len(pages') = Cardinality(MarkdownFiles(tree))
            /\ \A f \in MarkdownFiles(tree) :
                 Cardinality({i \in DOMAIN pages' :
                                PageFile(pages'[i]) = FullPath(f) /\ pages'[i].checksum = tree[f]}) = 1
            /\ \A i \in DOMAIN pages', j \in DOMAIN pages' :
                 i < j => CodeLess(PageFile(pages'[i]), PageFile(pages'[j]))
            /\ pages' = RefreshSteps(EmptyIndex, NoCommit, tree, "none", 0).index.pages]_vars

\* A refresh has completed on a tree that holds, next to its .md files in two
\* folders, a .txt file and a file with the suffix .MD.
C23_Witness ==
  /\ req.kind = "refresh" /\ resp.ok
  /\ installed = IndexState
  /\ tree[fileTxt] # NoFile /\ tree[fileUp] # NoFile
  /\ Cardinality(MarkdownFiles(tree)) >= 5
  /\ resp.pages = Cardinality(MarkdownFiles(tree))

\* C24: in every answer of list_docs the limit reported is an integer in
\* 1..20 and results has at most that many entries, also when the caller
\* leaves limit out and the page size is config.topK.
C24_LimitInRange ==
  req.kind = "list" /\ resp.ok =>
    /\ resp.limit \in MinLimit..MaxLimit
    /\ Len(resp.results) <= resp.limit

\* C25: a step that answers read_doc or a load of the resource answers by the
\* uri, docsDirResolved and the working tree alone: it succeeds exactly when
\* the uri resolves and a file is at the resolved path, and then returns that
\* file's content, whatever pages holds; so a uri of the index whose file is
\* gone fails, and a uri of a file that is no page of the index is served.
C25_ReadIgnoresIndex ==
  [][(req'.kind \in {"read", "resource"} /\ (req' # req \/ resp' # resp))
       => LET Outcome(uri, filePath) ==
                LET Answered(readable, indexed) ==
                      /\ resp'.ok <=> readable
                      /\ resp'.ok => resp'.content = ReadFileSync(tree, filePath.path).doc
                      /\ (indexed /\ ~readable) => ~resp'.ok
                      /\ (readable /\ ~indexed) => resp'.ok
                IN  Answered(filePath.ok /\ ReadFileSync(tree, filePath.path).ok,
                             \E i \in DOMAIN pages : pages[i].uri = uri)
          IN  Outcome(IF req'.kind = "read" THEN req'.uri ELSE prefix \o req'.path,
                      resolveDocFilePath(docsDirResolved,
                                         IF req'.kind = "read" THEN req'.uri ELSE prefix \o req'.path))]_vars

\* read_doc of a uri the index holds has failed: the file of the page is not
\* in the working tree any more.
C25_Witness ==
  /\ req.kind = "read"
  /\ resp = Failed("read", "ENOENT")
  /\ \E i \in DOMAIN pages :
       /\ pages[i].uri = req.uri
       /\ ~ReadFileSync(tree, PageFile(pages[i])).ok

\* A load of n.txt, which no index holds, has been served.
C25_UnindexedServed ==
  /\ req.kind = "resource" /\ resp.ok
  /\ req.path = << "n", ".", "t", "x", "t" >>
  /\ pages # <<>>
  /\ resp.content = tree[fileTxt]

\* A load of a.md has been served while the index, built before the file was
\* checked out, has no page.
C25_CreatedLaterServed ==
  /\ req.kind = "resource" /\ resp.ok
  /\ req.path = << "a", ".", "m", "d" >>
  /\ pages = <<>>

====
